---- MODULE Spec2Model ----
(***************************************************************************)
(* Model of silberstral (src/src/silberstral/silberstral.py): run-time     *)
(* resolution of the concrete types bound to the type variables of a       *)
(* generic class hierarchy.                                                *)
(*                                                                         *)
(* Python objects are records with a "kind" field.  A type variable has an *)
(* identity (id) and a display name (name); two type variables with equal  *)
(* names and different ids are "linked".  A class carries the bases it was *)
(* declared with (orig_bases) and the parameters the typing module derives *)
(* from them.  A generic alias (a parameterization) carries its origin,    *)
(* its arguments and the _name attribute of typing's aliases.              *)
(***************************************************************************)
EXTENDS Integers, Sequences, FiniteSets, TLC

VARIABLES py39, op, obj_or_cls, type_var, types, parent_type, result

vars == <<py39, op, obj_or_cls, type_var, types, parent_type, result>>

(***************************************************************************)
(* Bounds of the input universe.                                           *)
(***************************************************************************)
NumValues == 2
NumLinked == 2
MaxIndex == 1

(***************************************************************************)
(* Python values.                                                          *)
(***************************************************************************)
NoneVal == [kind |-> "none"]

NoName == "None"

PyInt(n) == [kind |-> "int", value |-> n]

TypeVar(id, name) == [kind |-> "typevar", id |-> id, name |-> name]

\* create_linked_type_var: a new type variable (fresh identity) that
\* inherits the name of the given one.
create_linked_type_var(other_type_var, fresh) ==
    TypeVar(fresh, other_type_var.name)

isinstance_TypeVar(x) == x.kind = "typevar"

_T1 == TypeVar("_T1", "_T1")
_T2 == TypeVar("_T2", "_T2")

LinkedIds == <<"_T1_linked1", "_T1_linked2", "_T1_linked3", "_T1_linked4">>

Linked(i) == create_linked_type_var(_T1, LinkedIds[i])

LinkedVars == {Linked(i) : i \in 1..NumLinked}

\* The type variables typing's own containers declare before Python 3.9.
T_co == TypeVar("T_co", "T_co")
KT == TypeVar("KT", "KT")
VT == TypeVar("VT", "VT")

(***************************************************************************)
(* Sequence helpers.                                                       *)
(***************************************************************************)
SeqToSet(s) == {s[i] : i \in DOMAIN s}

RECURSIVE Unique(_)
\* the elements of s in order of first appearance
Unique(s) ==
    IF s = <<>> THEN <<>>
    ELSE LET front == Unique(SubSeq(s, 1, Len(s) - 1))
             last == s[Len(s)]
         IN IF last \in SeqToSet(front) THEN front ELSE Append(front, last)

RECURSIVE Concat(_)
Concat(ss) == IF ss = <<>> THEN <<>> ELSE Head(ss) \o Concat(Tail(ss))

\* the tuples of length n over S
Tuples(S, n) == [1..n -> S]

(***************************************************************************)
(* Classes and generic aliases as the typing module builds them.           *)
(***************************************************************************)
Generic == [kind |-> "class", name |-> "Generic", orig_bases |-> <<>>,
            parameters |-> <<>>]

\* G[args] for a user-defined generic class G: typing leaves _name unset.
Alias(origin, args) ==
    [kind |-> "alias", name |-> NoName, origin |-> origin, args |-> args]

IsGenericMarker(b) == b.kind = "alias" /\ b.origin = Generic

\* the type variables among the arguments of the alias bases, in order
TypeVarsOf(orig_bases) ==
    Unique(Concat([i \in DOMAIN orig_bases |->
        IF orig_bases[i].kind = "alias"
        THEN SelectSeq(orig_bases[i].args, isinstance_TypeVar)
        ELSE <<>>]))

\* __parameters__ as typing.Generic.__init_subclass__ sets it
CollectParameters(orig_bases) ==
    IF \E i \in DOMAIN orig_bases : IsGenericMarker(orig_bases[i])
    THEN LET i == CHOOSE j \in DOMAIN orig_bases : IsGenericMarker(orig_bases[j])
         IN orig_bases[i].args
    ELSE TypeVarsOf(orig_bases)

\* class name(*orig_bases): pass
Class(name, orig_bases) ==
    [kind |-> "class", name |-> name, orig_bases |-> orig_bases,
     parameters |-> CollectParameters(orig_bases)]

\* an instance of cls; orig_class is the alias it was created from
\* (G[args]() or save_instantiate(G[args])), NoneVal for cls()
Instance(cls, orig_class) ==
    [kind |-> "instance", cls |-> cls, orig_class |-> orig_class]

\* the run-time classes behind typing's containers
RuntimeClass(name) == Class(name, <<>>)

\* typing.Iterable, typing.Dict: the unsubscripted special forms.  From
\* Python 3.9 on they carry no type variables.
SpecialForm(name, runtime, tvars) ==
    [kind |-> "special", name |-> name, origin |-> RuntimeClass(runtime),
     parameters |-> IF py39 THEN <<>> ELSE tvars, nparams |-> Len(tvars)]

typing_Iterable == SpecialForm("Iterable", "collections.abc.Iterable", <<T_co>>)
typing_Dict == SpecialForm("Dict", "dict", <<KT, VT>>)

\* sys.modules['typing'], restricted to the containers of the model
typing_modules ==
    [n \in {"Iterable", "Dict"} |->
        IF n = "Iterable" THEN typing_Iterable ELSE typing_Dict]

\* typing.X[args]: _name links to the special form, __origin__ is the
\* run-time class
SpecialAlias(special, args) ==
    [kind |-> "alias", name |-> special.name, origin |-> special.origin,
     args |-> args]

(***************************************************************************)
(* Attribute access.                                                       *)
(***************************************************************************)
hasattr_name(tp) == tp.kind \in {"alias", "special"}

hasattr_origin(tp) == tp.kind \in {"alias", "special"}

\* tp._special before 3.9, isinstance(tp, _SpecialGenericAlias) from 3.9 on
is_special(tp) == tp.kind = "special"

\* '__orig_bases__' in cls.__dict__: typing records the declared bases when
\* one of them is a generic alias
OwnOrigBases(cls) ==
    \E i \in DOMAIN cls.orig_bases : cls.orig_bases[i].kind = "alias"

RECURSIVE hasattr_orig_bases(_)
\* hasattr(x, '__orig_bases__'): the attribute is inherited along the bases
hasattr_orig_bases(x) ==
    CASE x.kind = "class" ->
            \/ OwnOrigBases(x)
            \/ \E i \in DOMAIN x.orig_bases : hasattr_orig_bases(x.orig_bases[i])
      [] x.kind = "instance" -> hasattr_orig_bases(x.cls)
      [] OTHER -> FALSE

RECURSIVE getattr_orig_bases(_)
getattr_orig_bases(x) ==
    CASE x.kind = "instance" -> getattr_orig_bases(x.cls)
      [] OTHER ->
            IF OwnOrigBases(x) THEN x.orig_bases
            ELSE LET i == CHOOSE j \in DOMAIN x.orig_bases :
                              /\ hasattr_orig_bases(x.orig_bases[j])
                              /\ \A k \in 1..(j - 1) :
                                     ~hasattr_orig_bases(x.orig_bases[k])
                 IN getattr_orig_bases(x.orig_bases[i])

hasattr_orig_class(x) == x.kind = "instance" /\ x.orig_class # NoneVal

RECURSIVE IsGenericClass(_)
\* the class has typing.Generic among its ancestors
IsGenericClass(cls) ==
    \E i \in DOMAIN cls.orig_bases :
        \/ cls.orig_bases[i].kind = "alias"
        \/ cls.orig_bases[i].kind = "class" /\ IsGenericClass(cls.orig_bases[i])

\* hasattr(x, '__parameters__')
hasattr_parameters(x) ==
    CASE x.kind = "class" -> IsGenericClass(x)
      [] x.kind = "instance" -> IsGenericClass(x.cls)
      [] x.kind = "special" -> TRUE
      [] OTHER -> FALSE

getattr_parameters(x) ==
    IF x.kind = "instance" THEN x.cls.parameters ELSE x.parameters

(***************************************************************************)
(* Outcomes: a returned value, or the error a call ends with.  The asserts *)
(* of the source are named after the error kind they signal; an            *)
(* AttributeError is raised by the interpreter itself.                     *)
(***************************************************************************)
Return(v) == [error |-> "none", value |-> v]

Raise(e) == [error |-> e, value |-> NoneVal]

EmptyDict == [k \in {} |-> NoneVal]

len(d) == Cardinality(DOMAIN d)

\* range(a, b) as a sequence of ints
range(a, b) == [i \in 1..(b - a) |-> PyInt(a + i - 1)]

\* dict(enumerate(args))
dict_enumerate(args) ==
    [k \in {PyInt(i - 1) : i \in DOMAIN args} |-> args[k.value + 1]]

(***************************************************************************)
(* get_origin                                                              *)
(***************************************************************************)
\* without the detour over _name: typing's own get_origin
get_origin_erased(tp) ==
    IF hasattr_origin(tp) /\ ~is_special(tp) THEN tp.origin ELSE NoneVal

get_origin(tp) ==
    LET by_origin == IF hasattr_origin(tp) THEN tp.origin ELSE NoneVal
    IN  IF hasattr_name(tp) /\ tp.name # NoName
        THEN IF is_special(tp)
             THEN NoneVal
             ELSE IF tp.name \in DOMAIN typing_modules
                  THEN typing_modules[tp.name]
                  ELSE by_origin
        ELSE by_origin

_get_args(tp) == tp.args

(***************************************************************************)
(* _pack_type_var_instantiations: acc is the outcome so far, whose value   *)
(* is the dict type_var_instantiations.                                    *)
(***************************************************************************)
RECURSIVE PackFrom(_, _, _, _)
PackFrom(type_vars, type_instantiations, acc, i) ==
    IF i > Len(type_vars) THEN acc
    ELSE LET tv == type_vars[i]
             type_instantiation == type_instantiations[i]
         IN  IF ~isinstance_TypeVar(type_instantiation)
             THEN IF tv \in DOMAIN acc.value
                  THEN IF acc.value[tv] = type_instantiation
                       THEN PackFrom(type_vars, type_instantiations, acc, i + 1)
                       ELSE Raise("BindingConflict")
                  ELSE PackFrom(type_vars, type_instantiations,
                                Return(acc.value @@ (tv :> type_instantiation)),
                                i + 1)
             ELSE PackFrom(type_vars, type_instantiations, acc, i + 1)

\* the return statement indented into the loop: only the first pair is packed
_pack_return_in_loop(type_vars, type_instantiations, acc) ==
    IF Len(type_instantiations) # Len(type_vars)
    THEN Raise("ArityMismatch")
    ELSE PackFrom(SubSeq(type_vars, 1, 1), SubSeq(type_instantiations, 1, 1),
                  acc, 1)

RECURSIVE PackAllFrom(_, _, _, _)
\* the loop without the isinstance test: type variables are bound as well
PackAllFrom(type_vars, type_instantiations, acc, i) ==
    IF i > Len(type_vars) THEN acc
    ELSE LET tv == type_vars[i]
             type_instantiation == type_instantiations[i]
         IN  IF tv \in DOMAIN acc.value
             THEN IF acc.value[tv] = type_instantiation
                  THEN PackAllFrom(type_vars, type_instantiations, acc, i + 1)
                  ELSE Raise("BindingConflict")
             ELSE PackAllFrom(type_vars, type_instantiations,
                              Return(acc.value @@ (tv :> type_instantiation)),
                              i + 1)

\* type variables passed on to a base are recorded as its bindings
_pack_binds_type_vars(type_vars, type_instantiations, acc) ==
    IF Len(type_instantiations) # Len(type_vars)
    THEN Raise("ArityMismatch")
    ELSE PackAllFrom(type_vars, type_instantiations, acc, 1)

_pack_type_var_instantiations(type_vars, type_instantiations, acc) ==
    IF Len(type_instantiations) # Len(type_vars)
    THEN Raise("ArityMismatch")
    ELSE PackFrom(type_vars, type_instantiations, acc, 1)

(***************************************************************************)
(* _rec_gather_generics                                                    *)
(***************************************************************************)
\* the keys given to the arguments of one base class
BaseTypeVars(erased_class, type_instantiations, acc) ==
    IF py39 /\ is_special(erased_class)
    THEN range(len(acc.value), len(acc.value) + Len(type_instantiations))
    ELSE getattr_parameters(erased_class)

RECURSIVE _rec_gather_generics(_, _), GatherBases(_, _, _)
\* the loop over base_classes from index i on
GatherBases(base_classes, acc, i) ==
    IF i > Len(base_classes) \/ acc.error # "none" THEN acc
    ELSE LET base_class == base_classes[i]
             erased_class == get_origin(base_class)
         IN  IF erased_class = Generic
             THEN GatherBases(base_classes, acc, i + 1)
             ELSE IF erased_class # NoneVal
             THEN LET type_instantiations == _get_args(base_class)
                      type_vars == BaseTypeVars(erased_class,
                                                type_instantiations, acc)
                      packed == _pack_type_var_instantiations(
                                    type_vars, type_instantiations, acc)
                  IN  IF packed.error # "none" THEN packed
                      ELSE GatherBases(base_classes,
                               _rec_gather_generics(erased_class, packed),
                               i + 1)
             ELSE GatherBases(base_classes, acc, i + 1)

_rec_gather_generics(cls, acc) ==
    LET base_classes == IF hasattr_orig_bases(cls)
                        THEN getattr_orig_bases(cls) ELSE <<>>
    IN  GatherBases(base_classes, acc, 1)

(***************************************************************************)
(* reveal_type_vars                                                        *)
(***************************************************************************)
reveal_type_vars(x) ==
    LET cls_origin == get_origin(x)
    IN  IF cls_origin # NoneVal
        THEN IF py39 /\ is_special(cls_origin)
             THEN Return(dict_enumerate(x.args))
             ELSE _pack_type_var_instantiations(
                      getattr_parameters(cls_origin), _get_args(x),
                      Return(EmptyDict))
        ELSE IF hasattr_orig_class(x) /\ hasattr_parameters(x)
        THEN _pack_type_var_instantiations(
                 getattr_parameters(x), _get_args(x.orig_class),
                 Return(EmptyDict))
        ELSE IF hasattr_orig_bases(x)
        THEN _rec_gather_generics(x, Return(EmptyDict))
        ELSE Return(EmptyDict)

(***************************************************************************)
(* reveal_type_var                                                         *)
(***************************************************************************)
hasattr_dunder_name(x) == x.kind \in {"typevar", "class"}

\* the keys whose __name__ equals that of the requested type variable
matching_type_var_instantiations(d, tv) ==
    {k \in DOMAIN d : k.name = tv.name}

\* lookup by identity only: no fallback to the name
LookupByName_identity_only(d, tv) ==
    IF ~hasattr_dunder_name(tv) \/ \E k \in DOMAIN d : ~hasattr_dunder_name(k)
    THEN Raise("AttributeError")
    ELSE Raise("UnknownParameter")

\* any key of the requested name will do
LookupByName_first_match(d, tv) ==
    IF ~hasattr_dunder_name(tv) \/ \E k \in DOMAIN d : ~hasattr_dunder_name(k)
    THEN Raise("AttributeError")
    ELSE IF Cardinality(matching_type_var_instantiations(d, tv)) < 1
    THEN Raise("UnknownParameter")
    ELSE Return(d[CHOOSE k \in matching_type_var_instantiations(d, tv) : TRUE])

LookupByName(d, tv) ==
    IF ~hasattr_dunder_name(tv) \/ \E k \in DOMAIN d : ~hasattr_dunder_name(k)
    THEN Raise("AttributeError")
    ELSE IF Cardinality(matching_type_var_instantiations(d, tv)) # 1
    THEN Raise("UnknownParameter")
    ELSE Return(d[CHOOSE k \in matching_type_var_instantiations(d, tv) : TRUE])

\* without the assertion that the subject is generic at all
reveal_type_var_unchecked(x, tv) ==
    LET type_var_instantiations == reveal_type_vars(x)
    IN  IF type_var_instantiations.error # "none"
        THEN type_var_instantiations
        ELSE IF tv \in DOMAIN type_var_instantiations.value
        THEN Return(type_var_instantiations.value[tv])
        ELSE LookupByName(type_var_instantiations.value, tv)

reveal_type_var(x, tv) ==
    LET type_var_instantiations == reveal_type_vars(x)
    IN  IF type_var_instantiations.error # "none"
        THEN type_var_instantiations
        ELSE IF ~(len(type_var_instantiations.value) > 0)
        THEN Raise("NotGeneric")
        ELSE IF tv \in DOMAIN type_var_instantiations.value
        THEN Return(type_var_instantiations.value[tv])
        ELSE LookupByName(type_var_instantiations.value, tv)

(***************************************************************************)
(* The input universe: the classes of test/test_silberstral.py, generated  *)
(* from their shapes.                                                      *)
(***************************************************************************)
ValueNames == <<"Value1", "Value2", "Value3", "Value4">>

Value(i) == Class(ValueNames[i], <<>>)

Values == {Value(i) : i \in 1..NumValues}

TypeVars == {_T1, _T2} \cup LinkedVars

\* what a class may pass on to its base: a type variable or a concrete type
TypeArgs == TypeVars \cup Values

SuperClass1TypeVar == Class("SuperClass1TypeVar", <<Alias(Generic, <<_T1>>)>>)
SuperClass1TypeVarB == Class("SuperClass1TypeVarB", <<Alias(Generic, <<_T2>>)>>)
SuperClass2TypeVar == Class("SuperClass2TypeVar", <<Alias(Generic, <<_T1, _T2>>)>>)
SuperClass1Linked == Class("SuperClass1Linked", <<Alias(Generic, <<Linked(1)>>)>>)

SuperClasses ==
    {SuperClass1TypeVar, SuperClass1TypeVarB, SuperClass2TypeVar, SuperClass1Linked}

SpecialForms == {typing_Iterable, typing_Dict}

\* all parameterizations G[a1..an] of G with arguments from S
AliasesOver(G, S) ==
    IF G.kind = "special"
    THEN {SpecialAlias(G, a) : a \in Tuples(S, G.nparams)}
    ELSE IF Len(G.parameters) = 0 THEN {}
    ELSE {Alias(G, a) : a \in Tuples(S, Len(G.parameters))}

\* a base as a class statement lists it: parameterized, or a bare class
BasesOver(G, S) ==
    AliasesOver(G, S) \cup (IF G.kind = "class" THEN {G} ELSE {})

\* class MiddleClass(Base[...]): one level above the roots
MiddleOver(G, S) == {Class("MiddleClass", <<b>>) : b \in AliasesOver(G, S)}

MiddleClasses == UNION {MiddleOver(G, TypeArgs) : G \in SuperClasses \cup SpecialForms}

\* class MiddleClassLevel2(MiddleClass[...]): a second forwarding level
MiddleClassesLevel2 ==
    UNION {{Class("MiddleClassLevel2", <<b>>) : b \in AliasesOver(M, TypeArgs)} :
           M \in MiddleOver(SuperClass1TypeVar, TypeVars)}

OriginClass(b) == IF b.kind = "alias" THEN b.origin ELSE b

RECURSIVE Ancestors(_)
Ancestors(cls) ==
    UNION {{OriginClass(cls.orig_bases[i])} \cup Ancestors(OriginClass(cls.orig_bases[i])) :
           i \in DOMAIN cls.orig_bases}

\* a base list Python accepts: no duplicate base, no base before its subclass
ConsistentBases(b1, b2) ==
    /\ OriginClass(b1) # OriginClass(b2)
    /\ OriginClass(b1) \notin Ancestors(OriginClass(b2))

\* bases that bind concrete types only
SimpleBases == UNION {AliasesOver(G, Values) : G \in SuperClasses \cup SpecialForms}

MiddleBases ==
    UNION {BasesOver(M, Values) :
           M \in MiddleOver(SuperClass1TypeVar, TypeArgs)
                 \cup MiddleOver(typing_Iterable, {_T1} \cup Values)
                 \cup MiddleOver(typing_Dict, {_T1} \cup Values)}

\* class Leaf(Base[...]): pass
LeafClasses1 ==
    {Class("Leaf", <<b>>) :
        b \in SimpleBases
              \cup UNION {BasesOver(M, Values) :
                          M \in SuperClasses \cup MiddleClasses \cup MiddleClassesLevel2}}

\* class Leaf(Base1[...], Base2[...]): pass
LeafClasses2 ==
    {Class("Leaf", bs) :
        bs \in {p \in ((SimpleBases \cup MiddleBases) \X SimpleBases)
                      \cup (SimpleBases \X MiddleBases) :
                   ConsistentBases(p[1], p[2])}}

\* classes outside every generic hierarchy
PlainClasses == Values \cup {Class("Plain", <<v>>) : v \in Values}

GenericClasses == SuperClasses \cup MiddleClasses \cup MiddleClassesLevel2

Classes == PlainClasses \cup GenericClasses \cup LeafClasses1 \cup LeafClasses2

\* G[...] written out by the caller
Parameterizations ==
    UNION {AliasesOver(G, Values \cup {_T2}) : G \in GenericClasses}
    \cup UNION {AliasesOver(G, TypeArgs) : G \in SpecialForms}

Instances ==
    {Instance(c, NoneVal) : c \in PlainClasses \cup LeafClasses1}
    \cup UNION {{Instance(G, a) : a \in AliasesOver(G, Values)} : G \in SuperClasses}

Subjects ==
    Classes \cup Parameterizations \cup Instances \cup SpecialForms
    \cup {NoneVal, _T1, PyInt(0)}

\* what reveal_type_var may be asked for
Requests == TypeVars \cup {PyInt(i) : i \in 0..MaxIndex}

(***************************************************************************)
(* gather_types.  The predicates of dacite.types and of dataclasses are    *)
(* modelled by what they test: is_generic looks for __origin__, is_union   *)
(* compares it with typing.Union, is_generic_collection asks whether it    *)
(* is a subclass of collections.abc.Collection.                            *)
(***************************************************************************)
typing_Union == [kind |-> "form", name |-> "Union"]

\* Union[args]: a generic alias whose __origin__ is typing.Union
UnionAlias(args) == Alias(typing_Union, args)

\* a list or tuple of types, or the values view of a dict
PyList(items) == [kind |-> "list", items |-> items]

\* the run-time classes of the model that subclass Collection
CollectionNames == {"dict"}

is_generic(type_) == hasattr_origin(type_)

is_union(type_) == is_generic(type_) /\ type_.origin = typing_Union

is_generic_collection(type_) ==
    /\ is_generic(type_)
    /\ type_.origin.kind = "class"
    /\ type_.origin.name \in CollectionNames

\* __args__, or () for an unsubscripted special form
extract_generic(type_) ==
    IF is_special(type_) THEN PyList(<<>>) ELSE PyList(type_.args)

isclass(x) == x.kind = "class"

\* the dataclasses of the model, with a field of the type variable _T1
RecordBound(v) == Class("RecordBound", <<Alias(SuperClass1TypeVar, <<v>>)>>)
RecordGeneric == Class("RecordGeneric", <<Alias(Generic, <<_T1>>)>>)
RecordPlain == Class("RecordPlain", <<>>)
\* a dataclass that extends RecordBound(v) and has a field of that type
RecordNested(v) == Class("RecordNested", <<RecordBound(v)>>)

DataclassNames == {"RecordBound", "RecordGeneric", "RecordPlain", "RecordNested"}

is_dataclass(t) ==
    \/ t.kind = "class" /\ t.name \in DataclassNames
    \/ t.kind = "instance" /\ t.cls.name \in DataclassNames

\* get_type_hints(t).values(): the declared field types
get_type_hints(t) ==
    CASE t.name = "RecordBound" -> <<_T1>>
      [] t.name = "RecordGeneric" -> <<_T1>>
      [] t.name = "RecordPlain" ->
            <<Value(1), SpecialAlias(typing_Dict, <<Value(1), Value(NumValues)>>)>>
      [] t.name = "RecordNested" -> <<_T1, t.orig_bases[1], Value(NumValues)>>

RECURSIVE gather_types(_, _), GatherLoop(_, _, _, _)

\* the arguments themselves are taken as the leaves
GatherComposite_add_arguments(t, parent_type_) ==
    Return(SeqToSet(extract_generic(t).items))

\* if is_generic_collection(t) or is_union(t)
GatherComposite(t, parent_type_) ==
    gather_types(extract_generic(t), parent_type_)

\* elif is_dataclass(t)
GatherRecord(t, parent_type_) ==
    gather_types(PyList(get_type_hints(t)), t)

\* elif isinstance(t, TypeVar)
GatherTypeVar(t, parent_type_) ==
    LET revealed == reveal_type_var(parent_type_, t)
    IN  IF revealed.error # "none" THEN revealed ELSE Return({revealed.value})

\* the types bound in the ancestry of t are listed with it
GatherConcrete_with_bases(t, parent_type_) ==
    LET bound == reveal_type_vars(t)
    IN  Return({t} \cup (IF bound.error = "none"
                         THEN {bound.value[k] : k \in DOMAIN bound.value}
                         ELSE {}))

\* else
GatherConcrete(t, parent_type_) == Return({t})

\* the body of the loop for one t
GatherOne(t, parent_type_) ==
    IF is_generic_collection(t) \/ is_union(t) THEN GatherComposite(t, parent_type_)
    ELSE IF is_dataclass(t) THEN GatherRecord(t, parent_type_)
    ELSE IF isinstance_TypeVar(t) THEN GatherTypeVar(t, parent_type_)
    ELSE GatherConcrete(t, parent_type_)

\* for t in types, from index i on; an exception ends the call
GatherLoop(items, parent_type_, all_types, i) ==
    IF i > Len(items) THEN Return(all_types)
    ELSE LET one == GatherOne(items[i], parent_type_)
         IN  IF one.error # "none" THEN one
             ELSE GatherLoop(items, parent_type_, all_types \cup one.value, i + 1)

gather_types(types_, parent_type_) ==
    LET iterable == IF \/ is_generic_collection(types_)
                       \/ is_generic(types_)
                       \/ isclass(types_)
                    THEN PyList(<<types_>>)
                    ELSE types_
    IN  IF iterable.kind # "list"
        THEN Raise("TypeError")
        ELSE GatherLoop(iterable.items, parent_type_, {}, 1)

(***************************************************************************)
(* The inputs of gather_types.                                             *)
(***************************************************************************)
GatherLeaves == Values \cup {_T1}

Records ==
    {RecordBound(v) : v \in Values} \cup {RecordNested(v) : v \in Values}
    \cup {RecordGeneric, RecordPlain}

DictsOver(S) == AliasesOver(typing_Dict, S)

\* expressions without a nested container
Exprs1 ==
    GatherLeaves \cup DictsOver(GatherLeaves)
    \cup AliasesOver(typing_Iterable, Values) \cup Records \cup {typing_Dict}

\* Dict[a, Dict[b, c]]
NestedDicts ==
    {SpecialAlias(typing_Dict, <<a, d>>) : a \in Values, d \in DictsOver(GatherLeaves)}

\* Union[x, y] of two different members
Unions ==
    {UnionAlias(<<p[1], p[2]>>) :
        p \in {q \in (Exprs1 \cup NestedDicts) \X (GatherLeaves \cup DictsOver(GatherLeaves)) :
                  q[1] # q[2]}}

GatherClasses ==
    PlainClasses \cup SuperClasses \cup {Class("Leaf", <<b>>) : b \in SimpleBases}

GatherLists ==
    {PyList(<<x>>) : x \in GatherLeaves}
    \cup {PyList(<<x, y>>) : x \in GatherLeaves, y \in GatherLeaves}

GatherInputs ==
    Exprs1 \cup NestedDicts \cup Unions \cup GatherClasses \cup GatherLists
    \cup {NoneVal}

\* parent_type: absent, outside every generic hierarchy, or binding _T1
Contexts ==
    {NoneVal, Value(1)}
    \cup {Class("Leaf", <<b>>) : b \in AliasesOver(SuperClass1TypeVar, Values)}
    \cup AliasesOver(SuperClass1TypeVar, Values)

(***************************************************************************)
(* The calls.  A state holds one call of the public interface and, once it *)
(* has returned, its outcome.                                              *)
(***************************************************************************)
Pending == [error |-> "pending", value |-> NoneVal]

Init ==
    /\ py39 \in BOOLEAN
    /\ op \in {"get_origin", "reveal_type_vars", "reveal_type_var", "gather_types"}
    /\ obj_or_cls \in (IF op = "gather_types" THEN {NoneVal} ELSE Subjects)
    /\ type_var \in (IF op = "reveal_type_var" THEN Requests ELSE {NoneVal})
    /\ types \in (IF op = "gather_types" THEN GatherInputs ELSE {NoneVal})
    /\ parent_type \in (IF op = "gather_types" THEN Contexts ELSE {NoneVal})
    /\ result = Pending

GetOrigin ==
    /\ op = "get_origin"
    /\ result.error = "pending"
    /\ result' = Return(get_origin(obj_or_cls))
    /\ UNCHANGED <<py39, op, obj_or_cls, type_var, types, parent_type>>

RevealTypeVars ==
    /\ op = "reveal_type_vars"
    /\ result.error = "pending"
    /\ result' = reveal_type_vars(obj_or_cls)
    /\ UNCHANGED <<py39, op, obj_or_cls, type_var, types, parent_type>>

RevealTypeVar ==
    /\ op = "reveal_type_var"
    /\ result.error = "pending"
    /\ result' = reveal_type_var(obj_or_cls, type_var)
    /\ UNCHANGED <<py39, op, obj_or_cls, type_var, types, parent_type>>

GatherTypes ==
    /\ op = "gather_types"
    /\ result.error = "pending"
    /\ result' = gather_types(types, parent_type)
    /\ UNCHANGED <<py39, op, obj_or_cls, type_var, types, parent_type>>

Next == GetOrigin \/ RevealTypeVars \/ RevealTypeVar \/ GatherTypes

Spec == Init /\ [][Next]_vars

(***************************************************************************)
(* Vocabulary of the properties.                                           *)
(***************************************************************************)
Returned(f) == op = f /\ result.error # "pending"

IsConcrete(x) == ~isinstance_TypeVar(x)

AllConcrete(args) == \A i \in DOMAIN args : IsConcrete(args[i])

\* x is the parameterization G[x.args]
BuiltFrom(x, G) ==
    /\ x.kind = "alias"
    /\ x = IF G.kind = "special" THEN SpecialAlias(G, x.args) ELSE Alias(G, x.args)

\* the generic types x can be a parameterization of
Generics(x) == SpecialForms \cup (IF x.kind = "alias" THEN {x.origin} ELSE {})

\* {P1: A1, ..., Pn: An}
Bindings(params, args) ==
    [p \in SeqToSet(params) |-> args[CHOOSE i \in DOMAIN params : params[i] = p]]

\* C1: reveal_type_vars of a parameterization G[A1..An] with concrete
\* arguments returns exactly the map from G's declared parameters to the
\* arguments at the same positions.
C1_ParameterizationBindsPositionally ==
    \A G \in Generics(obj_or_cls) :
        ( /\ Returned("reveal_type_vars")
          /\ BuiltFrom(obj_or_cls, G)
          /\ Len(G.parameters) > 0
          /\ Len(G.parameters) = Len(obj_or_cls.args)
          /\ AllConcrete(obj_or_cls.args) )
        => /\ result.error = "none"
           /\ result.value = Bindings(G.parameters, obj_or_cls.args)

\* a parameterization of a two-parameter class with two different concrete
\* types has been resolved to a two-entry map
C1_Witness ==
    /\ Returned("reveal_type_vars")
    /\ BuiltFrom(obj_or_cls, SuperClass2TypeVar)
    /\ obj_or_cls.args = <<Value(1), Value(2)>>
    /\ result.error = "none"
    /\ result.value = (_T1 :> Value(1)) @@ (_T2 :> Value(2))

\* C9: get_origin of a parameterization G[args] is G (for typing's
\* containers the special form of the typing module, not the run-time
\* class); it is None for an unparameterized generic, for a plain class and
\* for a class that inherits from a parameterized base.
C9_OriginOfParameterization ==
    Returned("get_origin") =>
        /\ \A G \in Generics(obj_or_cls) :
               BuiltFrom(obj_or_cls, G) => result.value = G
        /\ obj_or_cls.kind \in {"class", "special"} => result.value = NoneVal

\* the origin of a parameterized container has been extracted: the special
\* form of the typing module, which is not the alias's __origin__
C9_Witness ==
    /\ Returned("get_origin")
    /\ BuiltFrom(obj_or_cls, typing_Dict)
    /\ result.value = typing_Dict
    /\ result.value # obj_or_cls.origin

\* x takes part in no generic hierarchy: not a parameterization, and no
\* class among its ancestors has a parameterized base
NoGenericHierarchy(x) ==
    \/ x.kind \in {"none", "int"}
    \/ x.kind = "class" /\ ~IsGenericClass(x)
    \/ x.kind = "instance" /\ ~IsGenericClass(x.cls) /\ x.orig_class = NoneVal

\* C6: reveal_type_vars of a subject outside every generic hierarchy
\* returns the empty map; reveal_type_var fails with NotGeneric exactly
\* when reveal_type_vars of its subject returns the empty map.
C6_NotGenericIffEmptyMap ==
    /\ (Returned("reveal_type_vars") /\ NoGenericHierarchy(obj_or_cls))
        => result.error = "none" /\ len(result.value) = 0
    /\ Returned("reveal_type_var")
        => LET all == reveal_type_vars(obj_or_cls)
           IN  (result.error = "NotGeneric")
                   <=> (all.error = "none" /\ len(all.value) = 0)

\* reveal_type_var has failed with NotGeneric on a plain class
C6_Witness ==
    /\ Returned("reveal_type_var")
    /\ obj_or_cls \in PlainClasses
    /\ result.error = "NotGeneric"

\* the generic class G is the end of a chain in which every level forwards
\* the single parameter of its base under a new type variable of the same
\* name
RECURSIVE ForwardsAlias(_)
ForwardsAlias(G) ==
    /\ G.kind = "class"
    /\ Len(G.orig_bases) = 1
    /\ Len(G.parameters) = 1
    /\ LET b == G.orig_bases[1]
       IN  /\ b.kind = "alias"
           /\ b.name = NoName
           /\ \/ b.origin = Generic
              \/ /\ Len(b.origin.parameters) = 1
                 /\ b.args[1] # b.origin.parameters[1]
                 /\ b.args[1].name = b.origin.parameters[1].name
                 /\ ForwardsAlias(b.origin)

RECURSIVE ChainTokens(_)
\* the original parameter and the aliases of the chain
ChainTokens(G) ==
    LET b == G.orig_bases[1]
    IN  IF b.origin = Generic THEN {b.args[1]}
        ELSE {b.args[1]} \cup ChainTokens(b.origin)

\* cls is declared as class cls(G[A]) with A concrete, G an alias chain
BindsChain(cls) ==
    /\ cls.kind = "class"
    /\ Len(cls.orig_bases) = 1
    /\ cls.orig_bases[1].kind = "alias"
    /\ cls.orig_bases[1].name = NoName
    /\ ForwardsAlias(cls.orig_bases[1].origin)
    /\ IsConcrete(cls.orig_bases[1].args[1])

\* C4: on a class that binds the parameter of an alias chain to A,
\* reveal_type_var returns A for the original type variable and for every
\* alias of the chain.
C4_AliasTransparency ==
    ( /\ Returned("reveal_type_var")
      /\ BindsChain(obj_or_cls)
      /\ type_var \in ChainTokens(obj_or_cls.orig_bases[1].origin) )
    => result = Return(obj_or_cls.orig_bases[1].args[1])

\* a chain of three tokens, asked for the original one, which is not a key
C4_Witness ==
    /\ Returned("reveal_type_var")
    /\ BindsChain(obj_or_cls)
    /\ Cardinality(ChainTokens(obj_or_cls.orig_bases[1].origin)) = 3
    /\ type_var = _T1
    /\ type_var \notin SeqToSet(obj_or_cls.orig_bases[1].origin.parameters)
    /\ result = Return(Value(2))

\* the keys of the map that carry the name of the requested type variable
SameNameKeys(d, tv) ==
    {k \in DOMAIN d : isinstance_TypeVar(k) /\ isinstance_TypeVar(tv)
                      /\ k.name = tv.name}

\* C8: when the requested type variable is no key of the map and two or
\* more keys carry its name, reveal_type_var fails.
C8_AmbiguousNameFails ==
    Returned("reveal_type_var") =>
        LET all == reveal_type_vars(obj_or_cls)
        IN  ( /\ all.error = "none"
              /\ type_var \notin DOMAIN all.value
              /\ Cardinality(SameNameKeys(all.value, type_var)) >= 2 )
            => result.error \in {"UnknownParameter", "AttributeError"}

\* two keys of the requested name, both bound to the same type
C8_Witness ==
    /\ Returned("reveal_type_var")
    /\ LET all == reveal_type_vars(obj_or_cls)
       IN  /\ all.error = "none"
           /\ type_var \notin DOMAIN all.value
           /\ Cardinality(SameNameKeys(all.value, type_var)) >= 2
           /\ \A k \in DOMAIN all.value : all.value[k] = Value(1)
    /\ result.error = "UnknownParameter"

RECURSIVE PathBindings(_)
\* <<path, P, A>>: along the ancestry path (a sequence of base positions),
\* a base parameterizes a class that declares P with the concrete type A at
\* P's position
PathBindings(cls) ==
    UNION {
        LET b == cls.orig_bases[i]
            G == OriginClass(b)
        IN  (IF b.kind = "alias" /\ b.name = NoName /\ G # Generic
             THEN {<<(<<i>>), G.parameters[j], b.args[j]>> :
                      j \in {k \in DOMAIN b.args : IsConcrete(b.args[k])}}
             ELSE {})
            \cup {<<(<<i>>) \o r[1], r[2], r[3]>> : r \in PathBindings(G)}
        : i \in DOMAIN cls.orig_bases}

\* the concrete types the ancestry paths of cls give to P
TypesAlongPaths(cls, P) == {r[3] : r \in {q \in PathBindings(cls) : q[2] = P}}

\* P is bound along two different ancestry paths of cls
ReachedTwice(cls, P) ==
    \E r, q \in PathBindings(cls) : r[2] = P /\ q[2] = P /\ r[1] # q[1]

\* C2: a type parameter bound along two ancestry paths is resolved to the
\* one concrete type when the paths agree, and the resolution fails with
\* BindingConflict when they differ.
C2_TwoPathsAgreeOrConflict ==
    (Returned("reveal_type_vars") /\ obj_or_cls.kind = "class") =>
        \A P \in TypeVars :
            ReachedTwice(obj_or_cls, P) =>
                IF Cardinality(TypesAlongPaths(obj_or_cls, P)) = 1
                THEN /\ result.error = "none"
                     /\ P \in DOMAIN result.value
                     /\ {result.value[P]} = TypesAlongPaths(obj_or_cls, P)
                ELSE result.error = "BindingConflict"

\* class Leaf(LeftBase[X], RightBase[Y]) where RightBase declares a type
\* variable linked to the one LeftBase declares
InheritsLinkedBases(cls) ==
    /\ cls.kind = "class"
    /\ Len(cls.orig_bases) = 2
    /\ BuiltFrom(cls.orig_bases[1], SuperClass1TypeVar)
    /\ BuiltFrom(cls.orig_bases[2], SuperClass1Linked)
    /\ AllConcrete(cls.orig_bases[1].args)
    /\ AllConcrete(cls.orig_bases[2].args)

\* C3: with the two bases instantiated alike the resolution yields that
\* type; with the two bases instantiated differently it fails with
\* BindingConflict.
C3_LinkedAliasConflict ==
    ( /\ Returned("reveal_type_vars") \/ Returned("reveal_type_var")
      /\ InheritsLinkedBases(obj_or_cls)
      /\ type_var \in {NoneVal, _T1, Linked(1)} )
    => LET X == obj_or_cls.orig_bases[1].args[1]
           Y == obj_or_cls.orig_bases[2].args[1]
       IN  IF X # Y THEN result.error = "BindingConflict"
           ELSE /\ result.error = "none"
                /\ op = "reveal_type_var" => result.value = X
                /\ op = "reveal_type_vars" =>
                       \A k \in DOMAIN result.value : result.value[k] = X

\* class cls(Root[A, Q]) or class cls(Root[Q, A]): one parameter of the
\* two-parameter class Root fixed, the other passed on as Q
FixesOne(cls) ==
    /\ cls.kind = "class"
    /\ Len(cls.orig_bases) = 1
    /\ BuiltFrom(cls.orig_bases[1], SuperClass2TypeVar)
    /\ \E i \in 1..2 : /\ IsConcrete(cls.orig_bases[1].args[i])
                       /\ isinstance_TypeVar(cls.orig_bases[1].args[3 - i])

FixedAt(cls) == CHOOSE i \in 1..2 : IsConcrete(cls.orig_bases[1].args[i])

\* C5: reveal_type_vars of the middle class holds the fixed parameter
\* only; reveal_type_vars of class C(Mid[B]) binds the fixed parameter to A
\* and the passed-on one to B.
C5_StagedInstantiation ==
    Returned("reveal_type_vars") =>
        /\ FixesOne(obj_or_cls) =>
               LET i == FixedAt(obj_or_cls)
               IN  /\ result.error = "none"
                   /\ result.value = (SuperClass2TypeVar.parameters[i]
                                         :> obj_or_cls.orig_bases[1].args[i])
        /\ ( /\ obj_or_cls.kind = "class"
             /\ Len(obj_or_cls.orig_bases) = 1
             /\ obj_or_cls.orig_bases[1].kind = "alias"
             /\ FixesOne(obj_or_cls.orig_bases[1].origin)
             /\ AllConcrete(obj_or_cls.orig_bases[1].args) ) =>
               LET Mid == obj_or_cls.orig_bases[1].origin
                   i == FixedAt(Mid)
                   B == obj_or_cls.orig_bases[1].args[1]
               IN  /\ result.error = "none"
                   /\ result.value[SuperClass2TypeVar.parameters[i]]
                          = Mid.orig_bases[1].args[i]
                   /\ result.value[Mid.orig_bases[1].args[3 - i]] = B

\* C7: on a subject with a non-empty map, reveal_type_var fails with
\* UnknownParameter for every request that is absent from the map: a type
\* variable that is no key and whose name no key carries, and an index
\* that is no key.
C7_AbsentRequestIsUnknownParameter ==
    Returned("reveal_type_var") =>
        LET all == reveal_type_vars(obj_or_cls)
        IN  ( /\ all.error = "none"
              /\ len(all.value) > 0
              /\ type_var \notin DOMAIN all.value
              /\ SameNameKeys(all.value, type_var) = {} )
            => result.error = "UnknownParameter"

\* the running map of the walk over cls before its i-th base is visited
RunningMapBefore(cls, i) ==
    GatherBases(SubSeq(cls.orig_bases, 1, i - 1), Return(EmptyDict), 1)

\* C10: the arguments of an immediate base that parameterizes a container
\* of the typing module are bound to the indices n .. n+k-1, n the size of
\* the running map, and none of these indices is a key of the running map.
C10_IndicesContinue ==
    ( /\ py39
      /\ Returned("reveal_type_vars")
      /\ obj_or_cls.kind = "class"
      /\ OwnOrigBases(obj_or_cls) ) =>
        \A i \in DOMAIN obj_or_cls.orig_bases :
            LET b == obj_or_cls.orig_bases[i]
                before == RunningMapBefore(obj_or_cls, i)
            IN  ( /\ b.kind = "alias"
                  /\ b.name # NoName
                  /\ before.error = "none" ) =>
                    LET n == len(before.value)
                    IN  \A j \in DOMAIN b.args :
                            /\ PyInt(n + j - 1) \notin DOMAIN before.value
                            /\ IsConcrete(b.args[j]) =>
                                   /\ result.error = "none"
                                   /\ result.value[PyInt(n + j - 1)] = b.args[j]

\* C13: no value of a map reveal_type_vars returns is a type variable.
C13_NoTypeVarValue ==
    (Returned("reveal_type_vars") /\ result.error = "none") =>
        \A k \in DOMAIN result.value : IsConcrete(result.value[k])

\* x is Mid[B], Mid a class that fixes one parameter of the two-parameter
\* root and passes the other one on
ParameterizesStaged(x) ==
    /\ x.kind = "alias"
    /\ x.name = NoName
    /\ FixesOne(x.origin)
    /\ AllConcrete(x.args)

\* C14: reveal_type_vars of the parameterization Mid[B] holds bindings of
\* Mid's declared parameters only; the parameter that Mid's base list fixes
\* is no key of it, and is a key of reveal_type_vars of a class extending
\* Mid[B].
C14_ParameterizationNotWalked ==
    (Returned("reveal_type_vars") /\ ParameterizesStaged(obj_or_cls)) =>
        LET Mid == obj_or_cls.origin
            P == SuperClass2TypeVar.parameters[FixedAt(Mid)]
            C == reveal_type_vars(Class("Leaf", <<obj_or_cls>>))
        IN  /\ result.error = "none"
            /\ DOMAIN result.value \subseteq SeqToSet(Mid.parameters)
            /\ P \notin DOMAIN result.value
            /\ C.error = "none"
            /\ P \in DOMAIN C.value

\* the class with its two bases in the other order
Swapped(cls) == Class(cls.name, <<cls.orig_bases[2], cls.orig_bases[1]>>)

\* a class with two parameterized immediate bases that Python accepts in
\* either order
TwoParameterizedBases(cls) ==
    /\ cls.kind = "class"
    /\ Len(cls.orig_bases) = 2
    /\ cls.orig_bases[1].kind = "alias"
    /\ cls.orig_bases[2].kind = "alias"
    /\ ConsistentBases(cls.orig_bases[1], cls.orig_bases[2])
    /\ ConsistentBases(cls.orig_bases[2], cls.orig_bases[1])

\* C15: swapping the two parameterized bases of a class changes neither
\* whether reveal_type_vars succeeds or fails with BindingConflict nor the
\* type bound to any type-variable key.
C15_BaseOrderInsensitive ==
    (Returned("reveal_type_vars") /\ TwoParameterizedBases(obj_or_cls)) =>
        LET other == reveal_type_vars(Swapped(obj_or_cls))
        IN  /\ result.error = other.error
            /\ result.error = "none" =>
                   \A k \in DOMAIN result.value :
                       isinstance_TypeVar(k) =>
                           /\ k \in DOMAIN other.value
                           /\ other.value[k] = result.value[k]

\* class Mid(SuperClass1TypeVar[Q]) with Q of another identity and another
\* name than the parameter of SuperClass1TypeVar
Renames(Mid) ==
    /\ Mid.kind = "class"
    /\ Len(Mid.orig_bases) = 1
    /\ BuiltFrom(Mid.orig_bases[1], SuperClass1TypeVar)
    /\ isinstance_TypeVar(Mid.orig_bases[1].args[1])
    /\ Mid.orig_bases[1].args[1].name # _T1.name

\* b is Mid[A], Mid a renaming class, A concrete
ParameterizesRenaming(b) ==
    /\ b.kind = "alias"
    /\ b.name = NoName
    /\ Renames(b.origin)
    /\ AllConcrete(b.args)

\* C17: on class C(Mid[A]) the map is {Q: A}, without a binding of the
\* root's parameter P; on class C(Mid[A], SuperClass1TypeVar[A2]) with
\* A2 # A the map is {Q: A, P: A2} and no BindingConflict is raised.
C17_NoCompositionAcrossRenaming ==
    (Returned("reveal_type_vars") /\ obj_or_cls.kind = "class") =>
        LET bs == obj_or_cls.orig_bases
        IN  /\ (Len(bs) = 1 /\ ParameterizesRenaming(bs[1])) =>
                   result = Return(bs[1].origin.orig_bases[1].args[1] :> bs[1].args[1])
            /\ ( /\ Len(bs) = 2
                 /\ ParameterizesRenaming(bs[1])
                 /\ BuiltFrom(bs[2], SuperClass1TypeVar)
                 /\ AllConcrete(bs[2].args)
                 /\ bs[2].args[1] # bs[1].args[1] ) =>
                   result = Return((bs[1].origin.orig_bases[1].args[1] :> bs[1].args[1])
                                   @@ (_T1 :> bs[2].args[1]))

\* the renaming class has been bound to Value1 next to a base that binds
\* the root's parameter to Value2
C17_Witness ==
    /\ Returned("reveal_type_vars")
    /\ obj_or_cls.kind = "class"
    /\ Len(obj_or_cls.orig_bases) = 2
    /\ ParameterizesRenaming(obj_or_cls.orig_bases[1])
    /\ BuiltFrom(obj_or_cls.orig_bases[2], SuperClass1TypeVar)
    /\ result.error = "none"
    /\ result.value = (_T2 :> Value(1)) @@ (_T1 :> Value(2))

\* e is a union or a parameterized container, as gather_types tells them
Composite(e) ==
    /\ e.kind = "alias"
    /\ (e.origin = typing_Union \/ BuiltFrom(e, typing_Dict))

\* a concrete class that is no dataclass
ConcreteLeaf(e) == e.kind = "class" /\ ~is_dataclass(e)

RECURSIVE OverConcreteLeaves(_)
\* e is built from unions and parameterized containers over concrete leaves
OverConcreteLeaves(e) ==
    IF Composite(e)
    THEN \A i \in DOMAIN e.args : OverConcreteLeaves(e.args[i])
    ELSE ConcreteLeaf(e)

RECURSIVE LeavesOf(_)
\* the leaves that occur in e
LeavesOf(e) ==
    IF Composite(e)
    THEN UNION {LeavesOf(e.args[i]) : i \in DOMAIN e.args}
    ELSE {e}

\* C11: gather_types of an expression built from unions and parameterized
\* containers over concrete leaf types returns exactly the set of its
\* leaves; an unparameterized container gives the empty set.
C11_GatherReturnsLeaves ==
    Returned("gather_types") =>
        /\ (Composite(types) /\ OverConcreteLeaves(types)) =>
               /\ result.error = "none"
               /\ result.value = LeavesOf(types)
        /\ types = typing_Dict =>
               /\ result.error = "none"
               /\ result.value = {}

\* a union of a nested container with a container, three occurrences of
\* leaves collapsing into two
C11_Witness ==
    /\ Returned("gather_types")
    /\ types = UnionAlias(<<SpecialAlias(typing_Dict,
                               <<Value(1), SpecialAlias(typing_Dict, <<Value(2), Value(1)>>)>>),
                            SpecialAlias(typing_Dict, <<Value(2), Value(2)>>)>>)
    /\ result.error = "none"
    /\ result.value = {Value(1), Value(2)}

\* C12: gather_types of a concrete class that is no dataclass returns the
\* singleton of that class, also when the class inherits from
\* parameterized generic bases.
C12_GatherConcreteClass ==
    (Returned("gather_types") /\ ConcreteLeaf(types)) =>
        /\ result.error = "none"
        /\ result.value = {types}

\* a class that binds _T1 to Value1 in its ancestry has been gathered
C12_Witness ==
    /\ Returned("gather_types")
    /\ types = Class("Leaf", <<Alias(SuperClass1TypeVar, <<Value(1)>>)>>)
    /\ reveal_type_vars(types) = Return(_T1 :> Value(1))
    /\ result.error = "none"
    /\ result.value = {types}

\* what resolving tv against the context ctx makes of the call: the set of
\* the resolved type, or the failure of reveal_type_var
ResolvedAgainst(ctx, tv) ==
    LET revealed == reveal_type_var(ctx, tv)
    IN  IF revealed.error = "none" THEN Return({revealed.value}) ELSE revealed

\* the context is absent or its map is empty
NoBindings(ctx) == reveal_type_vars(ctx) = Return(EmptyDict)

\* C16: a type variable given to gather_types is resolved against
\* parent_type, a type variable among the fields of a dataclass against
\* that dataclass; the resolved type is what the result holds, and the call
\* fails with NotGeneric when the context that applies has no bindings.
C16_GatherContext ==
    Returned("gather_types") =>
        /\ isinstance_TypeVar(types) =>
               /\ result.error = ResolvedAgainst(parent_type, types).error
               /\ result.error = "none" =>
                      result.value = ResolvedAgainst(parent_type, types).value
               /\ NoBindings(parent_type) => result.error = "NotGeneric"
        /\ (types.kind = "class" /\ types.name \in {"RecordBound", "RecordGeneric"}) =>
               /\ result.error = ResolvedAgainst(types, _T1).error
               /\ result.error = "none" =>
                      result.value = ResolvedAgainst(types, _T1).value
               /\ NoBindings(types) => result.error = "NotGeneric"

====
